---- MODULE Spec2Model ----
(***************************************************************************)
(* Bulk-verification pages of the Integrity dashboard.                     *)
(*                                                                         *)
(* One behaviour is one run of one page's batch processor on one uploaded  *)
(* file: the processor walks the rows of the file in order, looks every    *)
(* row up through the page's client (memoised by st.cache_data where the   *)
(* page wraps it), writes the result columns, and returns the table or     *)
(* None.  The two asynchronous pages submit a job and poll its status.     *)
(***************************************************************************)
EXTENDS Integers, Sequences, FiniteSets, TLC

\* ------------------------------------------------------------------ bounds
MaxRows == 2
MaxRuns == 2
MaxItems == 2
MaxSessions == 2

\* ------------------------------------------------------- program constants
max_retries == 15
max_attempts == 20

\* ------------------------------------------------------------------- pages
Pages ==
    {"PAN", "PANDetailed", "Email", "AadharToPAN", "PANtoGST", "Phone",
     "Probe42", "Probe42PDF", "Court", "DL"}

\* Pages whose processor writes into the uploaded frame; the others append
\* one record per processed row to an initially empty list.
FramePages == {"PAN", "PANDetailed", "Email", "AadharToPAN", "Court", "DL"}

\* Pages that expand a list of the payload into a side table and left-join it
\* back: EPFO (items), MCA company master (directorsAndSignatories), MCA
\* director master (associations) and MCA director search by full name
\* (associations of the first match).
ExpandPages == {"EPFO", "CompanyMaster", "DirectorMaster", "DirectorSearch"}

\* ------------------------------------------------------------- cell values
\* A cell of the uploaded file as pandas reads it: NaN for an absent cell,
\* a whitespace-only string, or an identifier.
NaN == "NaN"
Blank == "  "
Cells == {NaN, Blank, "A", "B"}

\* pd.isna(x)
isna(x) == x = NaN

\* str(x): the float NaN prints as the three letters "nan".
str(x) == IF x = NaN THEN "nan" ELSE x

\* x.strip()
strip(x) == IF x = Blank THEN "" ELSE x

\* The guard every page writes: pd.isna(x) or str(x).strip() == ""
IsMissing(x) == isna(x) \/ strip(str(x)) = ""

\* What the claims call a blank identifier: an absent cell, an empty string
\* or a whitespace-only string.
BlankCell(x) == x \in {NaN, Blank, ""}

\* Arguments that can reach a client function.
Keys == {"A", "B", "nan"}

\* ------------------------------------------------------ transport outcomes
\* What one HTTP round trip can give the client function: a failure (non-2xx
\* status, connection error, timeout, undecodable body), a JSON object, or a
\* JSON body that is not an object.
Outcomes == {"fail", "ok1", "ok2", "list"}

\* The same round trip told apart by failure class: the body of a 2xx answer
\* that is not valid JSON is its own outcome.
AllOutcomes == Outcomes \cup {"notjson"}

\* Outcomes of the submission request of an asynchronous page: a failure, an
\* object without items (court records only), an object whose job carries no
\* _id, an object with a job _id, or a body that is not an object.
SubmitOutcomes == {"fail", "noitems", "noid", "job", "list"}

\* Outcomes of one status query: a failure, or an object whose status is
\* PENDING, COMPLETED (with a filled or an empty output) or ERRORED.
PollOutcomes == {"fail", "PENDING", "COMPLETED:out1", "COMPLETED:{}", "ERRORED"}

\* ERRORED is not told apart from a status that is still pending.
PollStatus_no_errored(s) ==
    CASE s = "fail" -> ""
      [] s \in {"COMPLETED:out1", "COMPLETED:{}"} -> "COMPLETED"
      [] OTHER -> "PENDING"

\* result.get('status') of what the status client returns ({} on failure).
PollStatus(s) ==
    CASE s = "fail" -> ""
      [] s \in {"COMPLETED:out1", "COMPLETED:{}"} -> "COMPLETED"
      [] OTHER -> s

\* result.get('output', {}) of a COMPLETED answer.
PollOutput(s) == IF s = "COMPLETED:out1" THEN "out1" ELSE "{}"

\* error.get('message', ...) of an ERRORED answer.
PollError(s) == "e1"

\* The value the client function returns for an outcome: {} on any failure,
\* the decoded body otherwise.
ClientResult(o) == IF o \in {"fail", "notjson"} THEN "{}" ELSE o

\* Python truthiness of a client result.
Truthy(res) == res # "{}"

\* The decoded body has .get (is a dict).
IsDict(res) == res # "list"

\* response.get('valid', ...) and response.get('message', ...) of a body.
PayloadValid(res) == IF res \in {"ok1", "out1"} THEN "True" ELSE "False"
PayloadMessage(res) == IF res \in {"ok1", "out1"} THEN "m1" ELSE "m2"

\* ------------------------------------------- payloads of the expanding pages
\* The list field of a body: JSON null (-2), key absent (-1), or a list of
\* 0..MaxItems objects.
Lists == {-2, -1} \cup (0..MaxItems)

\* What matters of a JSON object answered to an expanding page: its 'valid',
\* whether the identifier it carries (din, fullName) is the one that was
\* submitted, the length of its list field, and the length of
\* pastAssociations.
ExpandBodies ==
    [valid : {"True"}, echo : {"same", "other"}, items : Lists, past : 0..1]
    \cup [valid : {"False"}, echo : {"same"}, items : {-1, 1}, past : {0}]

\* The decoded body as the value the client returns and the cache stores.
BodyName(b) ==
    b.valid \o "/" \o b.echo \o "/" \o ToString(b.items)
            \o "/" \o ToString(b.past)

ExpandOutcomes == {"fail"} \cup {BodyName(b) : b \in ExpandBodies}

Body(res) == CHOOSE b \in ExpandBodies : BodyName(b) = res

\* ------------------------------------------------------------------- state
VARIABLES
    page,        \* the page whose processor runs
    auth_token,  \* credentials handed to the processor ("" when absent)
    input,       \* the rows of the uploaded file, in file order
    idx,         \* 1-based position of the row being processed
    pc,          \* "rows", "poll" or "done"
    df,          \* the table under construction
    ret,         \* "running", "df" (a table was returned) or "None"
    cache,       \* memo store of the page's client: key -> result or "Miss"
    transport,   \* per key: number of HTTP requests issued by the client
    netCalls,    \* per row: number of HTTP requests issued for that row
    async_id,    \* job handle of the row being polled
    attempt,     \* loop counter of the poll loop (0 outside the loop, where
                 \* its value is dead: the next row assigns it before use)
    polls,       \* per row: number of status queries issued
    answer,      \* per row: what the last status query returned
    raised,      \* where an exception that ended the run came from:
                 \* "" (none), "loop" (the processor) or "client"
    expanded_rows, \* the side table of the expanding pages
    run,         \* number of the batch run within the session
    prev,        \* what the previous run of the session returned
    steady,      \* TRUE: the external services answer a repeated request
                 \* the way they answered it before
    served,      \* per key: the answer given to the first request
    job,         \* per job: the answer that ended its first polling
    decode_caught, \* the installed requests raises its JSON decoding error
                 \* as a RequestException (TRUE) or as a plain ValueError
    file_type,   \* the declared format of the uploaded file
    columns,     \* df.columns of the uploaded file, in file order
    session,     \* number of the browser session the page is serving
    owner,       \* per key: the session whose call stored the cached value
                 \* (0 when nothing is stored)
    keys,        \* the keys of a flattened payload, in the payload's order
    out_columns, \* the columns of the returned table, in order
    installed,   \* Home.py has run in the server process: requests is
                 \* patched by requests_cache.install_cache
    http_cache,  \* the store of requests_cache, per GET url (one per key):
                 \* the stored response or "Miss"
    replayed,    \* per row: number of status queries answered from that store
    nested_json, \* the payload handed to flatten_json
    flattened_dict, \* what flatten_json returned: key -> the value written last
    zipfolder,   \* the files in downloads/zipfolder (by CIN)
    downloadable, \* the PDFs inside downloads/downloadable.zip
    authentication_status, \* st.session_state['authentication_status']:
                 \* "absent" (no such key), "None", "False" or "True"
    accepted,    \* the authenticator has accepted a login in this session
    ran,         \* the pages whose run() has executed in this session
    probe_api_key, \* st.session_state.probe_api_key ("" when not entered)
    probe        \* per session running the Probe42 PDF batch: where its
                 \* script is, the CINs it fetched, the ones it has copied,
                 \* and the content of the ZIP its download button offers

vars == <<page, auth_token, input, idx, pc, df, ret, cache, transport,
          netCalls, async_id, attempt, polls, answer, raised, expanded_rows,
          run, prev, steady, served, job, decode_caught, file_type, columns,
          session, owner, keys, out_columns, nested_json, flattened_dict,
          installed, http_cache, replayed, zipfolder, downloadable, probe,
          authentication_status, accepted, ran, probe_api_key>>

\* What the scripts' gates read and write.
gate == <<authentication_status, accepted, ran, probe_api_key>>

\* What the row loop of a processor neither reads nor writes.
layout == <<keys, out_columns, nested_json, flattened_dict>>

shared_dir == <<zipfolder, downloadable, probe>>

apart == <<layout, shared_dir>>

\* What a processor's loop works on.
batch ==
    <<idx, pc, df, ret, cache, transport, netCalls, async_id, attempt, polls,
      answer, raised, expanded_rows, owner, http_cache, replayed, served,
      job>>

\* Pages whose client issues GET requests through requests.get or
\* requests.request("GET", ...): the two status clients and Probe42.
GetPages == {"Court", "DL", "Probe42"}

InputRow == [id : Cells, aux : Cells]

\* Row of the frame right after the result columns were added (all None).
NewRow(i, cell) ==
    [sno |-> i, id |-> cell, valid |-> "None", message |-> "None",
     number |-> "None", payload |-> "None"]

\* Row of the frame of an expanding page.  'key' is the column the page later
\* joins on besides sno: the identifier column itself, except on the
\* director-master page, where it is the result column 'din'.  subsno = 0
\* stands for the NaN of a row without a joined side row.
NewRowX(i, cell) ==
    [sno |-> i, id |-> cell,
     key |-> IF page = "DirectorMaster" THEN "None" ELSE cell,
     valid |-> "None", message |-> "None", subsno |-> 0]

Inputs == UNION {[1..n -> InputRow] : n \in 0..MaxRows}

\* The frame the processor starts from: the uploaded rows with the result
\* columns added, or nothing where the page builds its table by appending.
FirstFrame ==
    IF page \in FramePages
    THEN [i \in 1..Len(input) |-> NewRow(i, input[i].id)]
    ELSE IF page \in ExpandPages
    THEN [i \in 1..Len(input) |-> NewRowX(i, input[i].id)]
    ELSE <<>>

\* A fresh session on page p, the processor not yet called: nothing cached,
\* nothing requested.
Fresh(P) ==
    /\ page \in P
    /\ auth_token \in {"", "tok"}
    /\ input \in Inputs
    /\ \A i \in 1..Len(input) :
          input[i].aux \in (IF page = "DL" THEN {NaN, "A"} ELSE {"A"})
    /\ idx = 1
    /\ ret = "running"
    /\ cache = [k \in Keys |-> "Miss"]
    /\ transport = [k \in Keys |-> 0]
    /\ netCalls = [i \in 1..Len(input) |-> 0]
    /\ async_id = ""
    /\ attempt = 0
    /\ polls = [i \in 1..Len(input) |-> 0]
    /\ answer = [i \in 1..Len(input) |-> "none"]
    /\ raised = ""
    /\ expanded_rows = <<>>
    /\ run = 1
    /\ prev = [ret |-> "none", df |-> <<>>]
    /\ served = [k \in Keys |-> "none"]
    /\ job = [k \in Keys |-> "none"]
    /\ decode_caught \in (IF page = "Probe42" THEN BOOLEAN ELSE {TRUE})
    /\ session = 1
    /\ owner = [k \in Keys |-> 0]
    /\ installed \in (IF page \in GetPages THEN BOOLEAN ELSE {TRUE})
    /\ http_cache = [k \in Keys |-> "Miss"]
    /\ replayed = [i \in 1..Len(input) |-> 0]

\* The user has logged in on Home, entered the Probe42 key where the page
\* asks for it, and opened the page, whose gate has called run().
Entered ==
    /\ authentication_status = "True"
    /\ accepted = TRUE
    /\ ran = {page}
    /\ probe_api_key = (IF page \in {"Probe42", "Probe42PDF"} THEN "key" ELSE "")

\* downloads/zipfolder is empty and no session is on the Probe42 PDF batch.
NoZip ==
    /\ zipfolder = {}
    /\ downloadable = {}
    /\ probe = <<>>

\* Nothing has been flattened or laid out.
Unused ==
    /\ keys = <<>>
    /\ out_columns = <<>>
    /\ nested_json = <<>>
    /\ flattened_dict = <<>>
    /\ NoZip

\* The processor of page p has read and accepted a csv file with the columns
\* sno, <identifier> and one more, and is about to enter its loop.
Start(P) ==
    /\ Fresh(P)
    /\ Entered
    /\ Unused
    /\ file_type = "csv"
    /\ columns = <<"sno", "id", "aux">>
    /\ pc = "rows"
    /\ df = FirstFrame

\* One run of one page; the services are free to answer a repeated request
\* differently (a transient failure, a job that makes progress).
Init == Start(Pages) /\ steady = FALSE

\* ------------------------------------------------------- client and cache
\* verify_*: without credentials the client returns {} before any I/O;
\* otherwise it issues one request and returns ClientResult of its outcome.
\* res is the returned value, net the number of requests issued.
verify(o) ==
    IF auth_token = "" THEN [res |-> "{}", net |-> 0]
    ELSE [res |-> ClientResult(o), net |-> 1]

\* A wrapper that keeps successes only: a key whose stored result is empty
\* is looked up again.
cached_retry_failures(key, o) ==
    IF cache[key] \notin {"Miss", "{}"} THEN [res |-> cache[key], net |-> 0]
    ELSE verify(o)

\* A wrapper that forgets the stored value: a stored key is answered {}.
cached_stale(key, o) ==
    IF cache[key] # "Miss" THEN [res |-> "{}", net |-> 0]
    ELSE verify(o)

\* @st.cache_data wrapper: a stored key is answered from the store.
cached(key, o) ==
    IF cache[key] # "Miss" THEN [res |-> cache[key], net |-> 0]
    ELSE verify(o)

\* State change of one call through the st.cache_data wrapper.
CallCached(key, c) ==
    /\ cache' = [cache EXCEPT ![key] = c.res]
    /\ transport' = [transport EXCEPT ![key] = @ + c.net]
    /\ netCalls' = [netCalls EXCEPT ![idx] = @ + c.net]
    /\ owner' = IF cache[key] = "Miss" THEN [owner EXCEPT ![key] = session]
                ELSE owner
    /\ UNCHANGED served

NoCall == UNCHANGED <<cache, transport, netCalls, served, owner>>

NoPoll ==
    UNCHANGED <<async_id, attempt, polls, answer, job, http_cache, replayed>>

\* What is fixed while a page's script runs.
setting ==
    <<page, auth_token, input, run, prev, steady, decode_caught, file_type,
      columns, session, installed, gate>>

\* What a run of the processor does not touch.
Session == UNCHANGED <<setting, apart>>

\* requests_cache.install_cache with its defaults stores the response of a
\* GET that came back with status 200 under the request's method and url,
\* for expire_after (7 days), and answers a later GET of that url from the
\* store without sending it.  o is what the remote would answer now.
\* The result: what the caller gets, and whether it came from the store.
http_get(key, o) ==
    IF installed /\ http_cache[key] # "Miss"
    THEN [o |-> http_cache[key], hit |-> TRUE]
    ELSE [o |-> o, hit |-> FALSE]

\* A response that is not a 200 (or no response) is given as "fail".
HttpStore(key, o) ==
    http_cache' = IF installed /\ http_cache[key] = "Miss" /\ o # "fail"
                  THEN [http_cache EXCEPT ![key] = o] ELSE http_cache

Frame == Session /\ UNCHANGED expanded_rows

\* An exception reached the processor's outer except: it returns None.
RaiseFrom(where) ==
    /\ pc' = "done"
    /\ ret' = "None"
    /\ raised' = where
    /\ UNCHANGED <<df, idx>>

Raise == RaiseFrom("loop")

\* The loop moves on to the next row with the frame updated.
NextRow(newdf) ==
    /\ df' = newdf
    /\ idx' = idx + 1
    /\ UNCHANGED <<pc, ret, raised>>

\* A steady service answers a request for a key the way it answered the
\* first one.
Answers(key, o) == steady => served[key] \in {"none", o}

Serve(key, o) ==
    served' = IF steady /\ served[key] = "none"
              THEN [served EXCEPT ![key] = o] ELSE served

\* A steady service reports a job whose polling has ended once the way it
\* reported it then.
Reports(k, s) == (steady /\ job[k] # "none") => s = job[k]

\* The polling of job k ended with answer s.
Ended(k, s) ==
    job' = IF job[k] = "none" THEN [job EXCEPT ![k] = s] ELSE job

InLoop(p) == page = p /\ pc = "rows" /\ idx <= Len(input)

\* ----------------------------------------------------------- PAN (page 2)
ProcessRowPAN(o) ==
    /\ InLoop("PAN")
    /\ Frame /\ NoPoll
    /\ LET pan == input[idx].id IN
       IF IsMissing(pan)
       THEN /\ NoCall
            /\ NextRow([df EXCEPT ![idx] = [@ EXCEPT !.valid = "False",
                           !.message = "PAN is missing.", !.payload = "{}"]])
       ELSE LET c == cached(pan, o) IN
            /\ CallCached(pan, c)
            /\ IF ~Truthy(c.res)
               THEN NextRow([df EXCEPT ![idx] = [@ EXCEPT !.valid = "False",
                        !.message = "No data returned from API.",
                        !.payload = "{}"]])
               ELSE IF ~IsDict(c.res) THEN Raise
               ELSE NextRow([df EXCEPT ![idx] = [@ EXCEPT
                        !.valid = PayloadValid(c.res),
                        !.message = PayloadMessage(c.res),
                        !.payload = c.res]])

\* -------------------------------------------------- PAN Detailed (page 15)
\* Neither a missing PAN nor an empty result writes anything to the row.
ProcessRowPANDetailed(o) ==
    /\ InLoop("PANDetailed")
    /\ Frame /\ NoPoll
    /\ LET pan == input[idx].id IN
       IF IsMissing(pan)
       THEN NoCall /\ NextRow(df)
       ELSE LET c == cached(pan, o) IN
            /\ CallCached(pan, c)
            /\ IF ~Truthy(c.res) THEN NextRow(df)
               ELSE IF ~IsDict(c.res) THEN Raise
               ELSE NextRow([df EXCEPT ![idx] = [@ EXCEPT !.payload = c.res]])

\* ---------------------------------------------------------- Email (page 7)
\* The page has no 'valid' column.
ProcessRowEmail(o) ==
    /\ InLoop("Email")
    /\ Frame /\ NoPoll
    /\ LET email == input[idx].id IN
       IF IsMissing(email)
       THEN /\ NoCall
            /\ NextRow([df EXCEPT ![idx] = [@ EXCEPT
                           !.message = "Email is missing.", !.payload = "{}"]])
       ELSE LET c == cached(email, o) IN
            /\ CallCached(email, c)
            /\ IF ~Truthy(c.res)
               THEN NextRow([df EXCEPT ![idx] = [@ EXCEPT
                        !.message = "No data returned from API.",
                        !.payload = "{}"]])
               ELSE IF ~IsDict(c.res) THEN Raise
               ELSE NextRow([df EXCEPT ![idx] = [@ EXCEPT
                        !.message = PayloadMessage(c.res),
                        !.payload = c.res]])

\* -------------------------------------------------- Aadhar to PAN (page 16)
\* aadhar = str(row['aadhar']) is taken before the missing-value guard.
ProcessRowAadharToPAN(o) ==
    /\ InLoop("AadharToPAN")
    /\ Frame /\ NoPoll
    /\ LET aadhar == str(input[idx].id) IN
       IF IsMissing(aadhar)
       THEN NoCall /\ NextRow(df)
       ELSE LET c == cached(aadhar, o) IN
            /\ CallCached(aadhar, c)
            /\ IF ~Truthy(c.res) THEN NextRow(df)
               ELSE IF ~IsDict(c.res) THEN Raise
               ELSE NextRow([df EXCEPT ![idx] = [@ EXCEPT
                        !.message = "Verification successful.",
                        !.payload = c.res]])

\* ----------------------------------------------------- PAN to GST (page 17)
\* flatten_json runs on the result first (it needs .items()), and only a
\* truthy result is appended to result_df.
ProcessRowPANtoGST(o) ==
    /\ InLoop("PANtoGST")
    /\ Frame /\ NoPoll
    /\ LET pan == input[idx].id IN
       IF IsMissing(pan)
       THEN NoCall /\ NextRow(df)
       ELSE LET c == cached(pan, o) IN
            /\ CallCached(pan, c)
            /\ IF ~IsDict(c.res) THEN Raise
               ELSE IF ~Truthy(c.res) THEN NextRow(df)
               ELSE NextRow(Append(df, [sno |-> idx, id |-> pan,
                        valid |-> "None", message |-> PayloadMessage(c.res),
                        number |-> "None", payload |-> c.res]))

\* ------------------------------------------------ Phone number (page 20)
\* mob = str(row['mob']) is taken before the guard, and
\* verification_result.get("result", {})[0] is evaluated before the result
\* is tested: on {} it is {}[0], a KeyError.
ProcessRowPhone(o) ==
    /\ InLoop("Phone")
    /\ Frame /\ NoPoll
    /\ LET mob == str(input[idx].id) IN
       IF IsMissing(mob)
       THEN NoCall /\ NextRow(df)
       ELSE LET c == cached(mob, o) IN
            /\ CallCached(mob, c)
            /\ IF ~IsDict(c.res) \/ ~Truthy(c.res) THEN Raise
               ELSE NextRow(Append(df, [sno |-> idx, id |-> mob,
                        valid |-> "None", message |-> PayloadMessage(c.res),
                        number |-> "None", payload |-> c.res]))

\* ------------------------------------------------------ Probe42 (page 0)
\* fetch_company_details_probe42: no credential guard, no memoisation.
\* A body that is not valid JSON makes response.json() raise; the function
\* catches requests' exception classes only, so whether the decoding error is
\* one of them (and {} is returned) or leaves the function depends on the
\* requests release installed.
fetch_company_details_probe42(cin, o) ==
    LET g == http_get(cin, o) IN
    [res |-> ClientResult(g.o), net |-> IF g.hit THEN 0 ELSE 1,
     exc |-> (g.o = "notjson" /\ ~decode_caught)]

\* fetch_company_details_probe42_pdf: True when cache/<cin>.pdf exists,
\* else one request whose body is written to that file on success.
fetch_company_details_probe42_pdf(cin, o) ==
    IF cache[cin] # "Miss" THEN [res |-> "True", net |-> 0, file |-> cache[cin]]
    ELSE IF o = "fail" THEN [res |-> "False", net |-> 1, file |-> "Miss"]
    \* the body is written to the file undecoded
    ELSE [res |-> "True", net |-> 1, file |-> "pdf"]

\* A missing CIN leaves the loop iteration by 'continue' before the record
\* is appended to expanded_rows.
ProcessRowProbe42(o) ==
    /\ InLoop("Probe42")
    /\ Frame
    /\ UNCHANGED <<async_id, attempt, polls, answer, job, replayed>>
    /\ LET cin == input[idx].id IN
       IF IsMissing(cin)
       THEN NoCall /\ NextRow(df) /\ UNCHANGED http_cache
       ELSE LET c == fetch_company_details_probe42(cin, o) IN
            /\ Answers(cin, o) /\ Serve(cin, o)
            /\ HttpStore(cin, o)
            /\ transport' = [transport EXCEPT ![cin] = @ + c.net]
            /\ netCalls' = [netCalls EXCEPT ![idx] = @ + c.net]
            /\ UNCHANGED <<cache, owner>>
            /\ IF c.exc THEN RaiseFrom("client")
               ELSE IF Truthy(c.res)
               THEN NextRow(Append(df, [sno |-> idx, id |-> cin,
                        valid |-> "True",
                        message |-> "Data retrieved successfully.",
                        number |-> "None", payload |-> c.res]))
               ELSE NextRow(Append(df, [sno |-> idx, id |-> cin,
                        valid |-> "False",
                        message |-> "No data returned from API.",
                        number |-> "None", payload |-> "{}"]))

ProcessRowProbe42PDF(o) ==
    /\ InLoop("Probe42PDF")
    /\ Frame /\ NoPoll
    /\ LET cin == input[idx].id IN
       IF IsMissing(cin)
       THEN NoCall /\ NextRow(df)
       ELSE LET c == fetch_company_details_probe42_pdf(cin, o) IN
            /\ c.net > 0 => Answers(cin, o)
            /\ IF c.net > 0 THEN Serve(cin, o) ELSE UNCHANGED served
            /\ cache' = [cache EXCEPT ![cin] = c.file]
            /\ owner' = IF cache[cin] = "Miss" /\ c.file # "Miss"
                        THEN [owner EXCEPT ![cin] = session] ELSE owner
            /\ transport' = [transport EXCEPT ![cin] = @ + c.net]
            /\ netCalls' = [netCalls EXCEPT ![idx] = @ + c.net]
            /\ IF c.res = "True"
               THEN NextRow(Append(df, [sno |-> idx, id |-> cin,
                        valid |-> "True",
                        message |-> "Data retrieved successfully. Download zip file.",
                        number |-> "None", payload |-> "pdf"]))
               ELSE NextRow(Append(df, [sno |-> idx, id |-> cin,
                        valid |-> "False",
                        message |-> "No data returned from API.",
                        number |-> "None", payload |-> "{}"]))

\* pd.DataFrame(expanded_rows) followed by df.pop('message'): with no record
\* appended the frame has no columns and pop raises KeyError.
ReturnProbe42 ==
    /\ page \in {"Probe42", "Probe42PDF"}
    /\ pc = "rows" /\ idx > Len(input)
    /\ pc' = "done"
    /\ ret' = IF df = <<>> THEN "None" ELSE "df"
    /\ raised' = IF df = <<>> THEN "loop" ELSE raised
    /\ UNCHANGED <<df, idx>>
    /\ Frame /\ NoCall /\ NoPoll

\* ------------------------------------------------ Court records (page 12)
\* Off by one: the loop gives up one iteration early.
court_more_short(a) == a < max_retries - 1

\* for attempt in range(max_retries): another iteration follows a
\* non-terminal answer while the counter is below max_retries.
court_more(a) == a < max_retries

\* The for-else branch without the assignment to 'number'.
court_timed_out_silent(row) ==
    [row EXCEPT !.valid = "False", !.payload = "{}"]

\* The for-else branch: the budget ran out without a terminal status.
court_timed_out(row) ==
    [row EXCEPT !.valid = "False", !.payload = "{}",
                !.number = "Search did not complete in time."]

\* The rows left without a job: failed request, no items, no _id.
court_no_job(row, res) ==
    [row EXCEPT !.valid = "False", !.payload = "{}",
                !.number = CASE ~Truthy(res) -> "Search request failed."
                             [] res = "noitems" -> "No items in response."
                             [] OTHER -> "Async ID missing."]

\* Tag guard, cached submission, extraction of the job _id.
SubmitCourt(o) ==
    /\ InLoop("Court")
    /\ Frame
    /\ LET tag == input[idx].id IN
       IF IsMissing(tag)
       THEN /\ NoCall /\ NoPoll
            /\ NextRow([df EXCEPT ![idx] = [@ EXCEPT !.valid = "False",
                           !.number = "Tag is missing.", !.payload = "{}"]])
       ELSE LET c == cached(tag, o) IN
            /\ CallCached(tag, c)
            /\ IF ~Truthy(c.res) THEN
                    NoPoll /\ NextRow([df EXCEPT ![idx] = court_no_job(@, c.res)])
               ELSE IF ~IsDict(c.res) THEN NoPoll /\ Raise
               ELSE IF c.res # "job" THEN
                    NoPoll /\ NextRow([df EXCEPT ![idx] = court_no_job(@, c.res)])
               ELSE /\ df' = [df EXCEPT ![idx] = [@ EXCEPT !.number = "n1"]]
                    /\ async_id' = tag
                    /\ attempt' = 0
                    /\ pc' = "poll"
                    /\ UNCHANGED <<idx, ret, raised, polls, answer, job,
                                   http_cache, replayed>>

\* get_court_record_result: {} without credentials, else one GET of the
\* job's status url.  net counts the status query, hit tells that it was
\* answered from the store of requests_cache.
get_court_record_result(s) ==
    IF auth_token = "" THEN [res |-> "fail", net |-> 0, hit |-> FALSE]
    ELSE LET g == http_get(async_id, s) IN
         [res |-> g.o, net |-> 1, hit |-> g.hit]

\* What one status query leaves behind.
Polled(r, s) ==
    /\ polls' = [polls EXCEPT ![idx] = @ + r.net]
    /\ answer' = [answer EXCEPT ![idx] = r.res]
    /\ replayed' = [replayed EXCEPT ![idx] = @ + (IF r.hit THEN 1 ELSE 0)]
    /\ IF r.net > 0 THEN HttpStore(async_id, s) ELSE UNCHANGED http_cache

\* One iteration of the poll loop, with the for-else branch when it was the
\* last one.
PollCourt(s) ==
    /\ page = "Court" /\ pc = "poll"
    /\ Reports(async_id, s)
    /\ Frame /\ NoCall /\ UNCHANGED <<async_id, ret, raised>>
    /\ LET r == get_court_record_result(s)
           st == PollStatus(r.res) IN
       /\ Polled(r, s)
       /\ IF st = "COMPLETED" THEN
             /\ df' = [df EXCEPT ![idx] = [@ EXCEPT
                          !.valid = PayloadValid(PollOutput(r.res)),
                          !.payload = PollOutput(r.res)]]
             /\ idx' = idx + 1 /\ pc' = "rows" /\ attempt' = 0
             /\ Ended(async_id, r.res)
          ELSE IF st = "ERRORED" THEN
             /\ df' = [df EXCEPT ![idx] = [@ EXCEPT !.valid = "False",
                          !.payload = "{}",
                          !.number = "Error: " \o PollError(r.res)]]
             /\ idx' = idx + 1 /\ pc' = "rows" /\ attempt' = 0
             /\ Ended(async_id, r.res)
          ELSE
             IF court_more(attempt + 1)
             THEN attempt' = attempt + 1 /\ UNCHANGED <<df, idx, pc, job>>
             ELSE /\ df' = [df EXCEPT ![idx] = court_timed_out(@)]
                  /\ idx' = idx + 1 /\ pc' = "rows" /\ attempt' = 0
                  /\ Ended(async_id, r.res)

\* --------------------------------------------- Driving licence (page 5)
\* Off by one: the loop runs one iteration too many.
dl_more_extra(a) == a <= max_attempts

\* while attempt < max_attempts
dl_more(a) == a < max_attempts

\* Only an empty submission result counts as a failed initiation.
dl_no_job_falsy(res) == ~Truthy(res)

\* if not async_id: the submission gave no _id.
dl_no_job(res) == res # "job"

\* The row written when the submission gave no job _id.
dl_not_initiated(row) ==
    [row EXCEPT !.valid = "False",
                !.message = "Failed to initiate verification."]

\* The branch after the loop without the assignment to 'message'.
dl_not_completed_silent(row) == [row EXCEPT !.valid = "False"]

\* The row written when the loop ended with an empty verification_result
\* and a status other than COMPLETED.
dl_not_completed(row) ==
    [row EXCEPT !.valid = "False",
                !.message = "Verification did not complete."]

\* The row written from a COMPLETED job's output.
dl_completed(row, output) ==
    IF Truthy(output)
    THEN [row EXCEPT !.valid = PayloadValid(output),
                     !.message = PayloadMessage(output),
                     !.payload = output]
    ELSE [row EXCEPT !.valid = "False",
                     !.message = "No data returned from API.",
                     !.payload = "{}"]

\* Guard on dl_number and dob, cached submission, extraction of _id.
SubmitDL(o) ==
    /\ InLoop("DL")
    /\ o # "noitems"
    /\ Frame
    /\ LET dl_number == input[idx].id
           dob == input[idx].aux IN
       IF IsMissing(dl_number) \/ IsMissing(dob)
       THEN /\ NoCall /\ NoPoll
            /\ NextRow([df EXCEPT ![idx] = [@ EXCEPT !.valid = "False",
                           !.message = "DL Number or DOB is missing.",
                           !.payload = "{}"]])
       ELSE LET c == cached(dl_number, o) IN
            /\ CallCached(dl_number, c)
            /\ IF ~IsDict(c.res) THEN NoPoll /\ Raise
               ELSE IF dl_no_job(c.res) THEN
                    NoPoll /\ NextRow([df EXCEPT ![idx] = dl_not_initiated(@)])
               ELSE /\ async_id' = dl_number
                    /\ attempt' = 0
                    /\ pc' = "poll"
                    /\ UNCHANGED <<df, idx, ret, raised, polls, answer, job,
                                   http_cache, replayed>>

\* get_async_dl_verification_result: one GET of the job's status url, no
\* credential guard.
get_async_dl_verification_result(s) ==
    LET g == http_get(async_id, s) IN [res |-> g.o, net |-> 1, hit |-> g.hit]

\* One iteration of the while loop; when it was the last one, the code
\* after the loop up to the end of the row's iteration.
PollDL(s) ==
    /\ page = "DL" /\ pc = "poll"
    /\ Reports(async_id, s)
    /\ Frame /\ NoCall /\ UNCHANGED <<async_id, ret, raised>>
    /\ LET r == get_async_dl_verification_result(s)
           st == PollStatus(r.res) IN
       /\ Polled(r, s)
       /\ IF st = "COMPLETED" THEN
             /\ df' = [df EXCEPT ![idx] = dl_completed(@, PollOutput(r.res))]
             /\ idx' = idx + 1 /\ pc' = "rows" /\ attempt' = 0
             /\ Ended(async_id, r.res)
          ELSE IF st = "ERRORED" THEN
             /\ df' = [df EXCEPT ![idx] = dl_not_completed(@)]
             /\ idx' = idx + 1 /\ pc' = "rows" /\ attempt' = 0
             /\ Ended(async_id, r.res)
          ELSE
             IF dl_more(attempt + 1)
             THEN attempt' = attempt + 1 /\ UNCHANGED <<df, idx, pc, job>>
             ELSE /\ df' = [df EXCEPT ![idx] = dl_not_completed(@)]
                  /\ idx' = idx + 1 /\ pc' = "rows" /\ attempt' = 0
                  /\ Ended(async_id, r.res)

\* ------------------------------------------------------------ end of loop
\* The loop is over: the frame is returned.
ReturnFrame ==
    /\ page \in FramePages \cup {"PANtoGST", "Phone"}
    /\ pc = "rows" /\ idx > Len(input)
    /\ pc' = "done"
    /\ ret' = "df"
    /\ UNCHANGED <<df, idx, raised>>
    /\ Frame /\ NoCall /\ NoPoll

\* --------------------------------------------------------- expanding pages
\* enumerate(..., start=0)
expand_from_zero(sno, key, n) ==
    [k \in 1..n |-> [sno |-> sno, key |-> key, subsno |-> k - 1]]

\* for subsno, item in enumerate(items, start=1): one side row per element,
\* tagged with the parent's sno and join key.
expand(sno, key, n) ==
    [k \in 1..n |-> [sno |-> sno, key |-> key, subsno |-> k]]

\* The value a page writes into the identifier column from the body.
Echoed(b, cell) == IF b.echo = "same" THEN cell ELSE "other"

\* Common frame of the four row handlers: n is the length of the list the
\* page iterates (-2 when it is None, which enumerate and [*x] reject),
\* row the primary row as the page writes it.
ExpandRow(cell, row, n) ==
    IF n = -2 THEN Raise /\ UNCHANGED expanded_rows
    ELSE /\ NextRow([df EXCEPT ![idx] = row])
         /\ expanded_rows' =
               expanded_rows \o expand(idx, cell, IF n < 0 THEN 0 ELSE n)

\* EPFO (page 9): items are expanded only when the body says valid.
ProcessRowEPFO(o) ==
    /\ InLoop("EPFO")
    /\ Session /\ NoPoll
    /\ LET uan == input[idx].id IN
       IF IsMissing(uan)
       THEN /\ NoCall /\ UNCHANGED expanded_rows
            /\ NextRow([df EXCEPT ![idx] = [@ EXCEPT !.valid = "False",
                           !.message = "UAN is missing."]])
       ELSE LET c == cached(uan, o) IN
            /\ CallCached(uan, c)
            /\ IF ~Truthy(c.res)
               THEN /\ UNCHANGED expanded_rows
                    /\ NextRow([df EXCEPT ![idx] = [@ EXCEPT
                           !.valid = "False",
                           !.message = "No data returned from API."]])
               ELSE LET b == Body(c.res) IN
                    ExpandRow(uan,
                        [df[idx] EXCEPT !.valid = b.valid, !.message = "m1"],
                        IF b.valid = "True" THEN b.items ELSE 0)

\* MCA company master (page 1): directorsAndSignatories.
ProcessRowCompanyMaster(o) ==
    /\ InLoop("CompanyMaster")
    /\ Session /\ NoPoll
    /\ LET cin == input[idx].id IN
       IF IsMissing(cin)
       THEN /\ NoCall /\ UNCHANGED expanded_rows
            /\ NextRow([df EXCEPT ![idx] = [@ EXCEPT !.valid = "False",
                           !.message = "CIN is missing."]])
       ELSE LET c == cached(cin, o) IN
            /\ CallCached(cin, c)
            /\ IF ~Truthy(c.res)
               THEN /\ UNCHANGED expanded_rows
                    /\ NextRow([df EXCEPT ![idx] = [@ EXCEPT
                           !.valid = "False",
                           !.message = "No data returned from API."]])
               ELSE LET b == Body(c.res) IN
                    ExpandRow(cin,
                        [df[idx] EXCEPT !.valid = b.valid, !.message = "m1"],
                        b.items)

\* MCA director master (page 1): the body's 'din' is written to the din
\* column; associations and pastAssociations are concatenated and the side
\* rows carry the submitted 'reg' as their din.
ProcessRowDirectorMaster(o) ==
    /\ InLoop("DirectorMaster")
    /\ Session /\ NoPoll
    /\ LET din == input[idx].id IN
       IF IsMissing(din)
       THEN /\ NoCall /\ UNCHANGED expanded_rows
            /\ NextRow([df EXCEPT ![idx] = [@ EXCEPT !.valid = "False",
                           !.message = "DIN is missing."]])
       ELSE LET c == cached(din, o) IN
            /\ CallCached(din, c)
            /\ IF ~Truthy(c.res)
               THEN /\ UNCHANGED expanded_rows
                    /\ NextRow([df EXCEPT ![idx] = [@ EXCEPT
                           !.valid = "False",
                           !.message = "No data returned from API."]])
               ELSE LET b == Body(c.res) IN
                    ExpandRow(din,
                        [df[idx] EXCEPT !.valid = b.valid, !.message = "m1",
                                        !.key = Echoed(b, din)],
                        IF b.items = -2 THEN -2
                        ELSE (IF b.items < 0 THEN 0 ELSE b.items) + b.past)

\* MCA director search by full name (page 1): the first match's fullName
\* overwrites the fullName column; the side rows carry the name that was
\* uploaded.
ProcessRowDirectorSearch(o) ==
    /\ InLoop("DirectorSearch")
    /\ Session /\ NoPoll
    /\ LET full_name == input[idx].id IN
       IF IsMissing(full_name)
       THEN /\ NoCall /\ UNCHANGED expanded_rows
            /\ NextRow([df EXCEPT ![idx] = [@ EXCEPT !.valid = "False",
                           !.message = "Full Name is not provided."]])
       ELSE LET c == cached(full_name, o) IN
            /\ CallCached(full_name, c)
            /\ IF ~Truthy(c.res)
               THEN /\ UNCHANGED expanded_rows
                    /\ NextRow([df EXCEPT ![idx] = [@ EXCEPT
                           !.valid = "False",
                           !.message = "No matching records found."]])
               ELSE LET b == Body(c.res) IN
                    ExpandRow(full_name,
                        [df[idx] EXCEPT !.valid = "True",
                                        !.id = Echoed(b, full_name),
                                        !.key = Echoed(b, full_name)],
                        b.items)

\* The side rows that join to primary row p, in side-table order.
Matches(p, right) ==
    SelectSeq(right, LAMBDA e : e.sno = p.sno /\ e.key = p.key)

\* Primary row p once per matching side row, or once on its own.
Joined(p, right) ==
    LET m == Matches(p, right) IN
    IF m = <<>> THEN <<p>>
    ELSE [k \in 1..Len(m) |-> [p EXCEPT !.subsno = m[k].subsno]]

\* A join that puts the rows with side rows before the rows without.
RECURSIVE merge_matched_first(_, _)
merge_matched_first(left, right) ==
    IF left = <<>> THEN <<>>
    ELSE IF Matches(Head(left), right) = <<>>
         THEN merge_matched_first(Tail(left), right) \o <<Head(left)>>
         ELSE Joined(Head(left), right)
                  \o merge_matched_first(Tail(left), right)

\* pd.merge(df, expanded_df, on=['sno', <key>], how='left'): the rows of the
\* left frame in their order, each repeated once per matching side row.
RECURSIVE merge(_, _)
merge(left, right) ==
    IF left = <<>> THEN <<>>
    ELSE Joined(Head(left), right) \o merge(Tail(left), right)

\* The loop is over: the side table is joined to the frame and the result
\* returned.
ReturnMerged ==
    /\ page \in ExpandPages
    /\ pc = "rows" /\ idx > Len(input)
    /\ pc' = "done"
    /\ ret' = "df"
    /\ df' = merge(df, expanded_rows)
    /\ UNCHANGED <<idx, raised, expanded_rows>>
    /\ Session /\ NoCall /\ NoPoll

\* -------------------------------------------------- reading the upload
\* The formats a processor reads: "csv" with pd.read_csv, "xls" and "xlsx"
\* with pd.read_excel.
SupportedTypes == {"csv", "xls", "xlsx"}

\* Declared formats: the extension of the uploaded file's name.
FileTypes == SupportedTypes \cup {"txt"}

\* Column names of an uploaded file: the serial, the page's identifier and
\* one further column (dob on the driving-licence page, the party's details
\* on the court-record page, anything else elsewhere).
ColumnNames == {"sno", "id", "aux"}

\* The headers a file can have: its columns in any order, none twice.
Headers ==
    {h \in UNION {[1..n -> ColumnNames] : n \in 0..Cardinality(ColumnNames)} :
        \A a, b \in DOMAIN h : a # b => h[a] # h[b]}

\* required_columns of the page's processor.
required_columns ==
    IF page \in {"DL", "Court"} THEN {"sno", "id", "aux"} ELSE {"sno", "id"}

\* Only the declared format is looked at.
validated_type_only == file_type \in SupportedTypes

\* The file is read and all(column in df.columns for column in
\* required_columns) holds.
validated ==
    /\ file_type \in SupportedTypes
    /\ \A column \in required_columns :
          \E k \in DOMAIN columns : columns[k] = column

\* The head of every processor: read the file by its declared format, check
\* the required columns, add the result columns; return None when the format
\* is unsupported or a required column is absent.
OpenFile ==
    /\ pc = "open"
    /\ IF validated
       THEN /\ pc' = "rows"
            /\ df' = FirstFrame
            /\ UNCHANGED ret
       ELSE /\ pc' = "done"
            /\ ret' = "None"
            /\ UNCHANGED df
    /\ UNCHANGED <<idx, raised>>
    /\ Frame /\ NoCall /\ NoPoll

\* ------------------------------------------------- columns of the output
\* Names a flattened payload can use for its keys: two that are also result
\* columns, one that is also the page's identifier column, one other.
KeyNames == {"valid", "message", "id", "status"}

\* The flattened keys of a payload, in the payload's order.
PayloadKeys ==
    {h \in UNION {[1..n -> KeyNames] : n \in 0..Cardinality(KeyNames)} :
        \A a, b \in DOMAIN h : a # b => h[a] # h[b]}

Names(cols) == {cols[k] : k \in DOMAIN cols}

\* for key in more: if key not in cols: cols[key] = ...  (a dict or a frame
\* keeps a name that is already there where it is).
add_missing(cols, more) ==
    cols \o SelectSeq(more, LAMBDA c : c \notin Names(cols))

\* first_col = df.pop(c); df.insert(0, c, first_col)
to_front(cols, c) == <<c>> \o SelectSeq(cols, LAMBDA x : x # c)

\* expected_keys of the PAN page.
expected_keys == <<"valid", "category", "name", "aadhaarLinked", "message">>

\* The columns of the table a processor returns for a file with the columns
\* 'columns' whose payloads flatten to 'keys'.
\*   PAN: the uploaded frame with the expected_keys it lacks appended.
\*   Probe42: records built as the flattened payload, then valid, message,
\*     sno, regInput; message, valid, regInput and sno are then moved to the
\*     front, in that order.
\*   PAN to GST: records built as sno, pan, then the flattened payload.
output_columns ==
    CASE page = "PAN" -> add_missing(columns, expected_keys)
      [] page = "Probe42" ->
            to_front(to_front(to_front(to_front(
                add_missing(keys, <<"valid", "message", "sno", "id">>),
                "message"), "valid"), "id"), "sno")
      [] OTHER -> add_missing(<<"sno", "id">>, keys)

\* The table is laid out.
BuildColumns ==
    /\ pc = "columns"
    /\ pc' = "done"
    /\ ret' = "df"
    /\ out_columns' = output_columns
    /\ UNCHANGED <<keys, nested_json, flattened_dict, shared_dir>>
    /\ UNCHANGED <<setting, idx, df, raised, expanded_rows>>
    /\ NoCall /\ NoPoll

\* ------------------------------------------------------------ flatten_json
\* A JSON object of depth two, as the sequence of its items in document
\* order.  The value of an item is a scalar, an object of n scalars under
\* the first n of InnerKeys, or an array of n scalars.
ItemNames == {"a", "b", "id"}

InnerKeys == <<"a", "b">>

Values ==
    [kind : {"scalar"}, n : {0}] \cup [kind : {"dict", "list"}, n : 1..MaxItems]

Payloads ==
    {y \in UNION {[1..n -> [name : ItemNames, value : Values]] : n \in 1..2} :
        \A a, b \in DOMAIN y : a # b => y[a].name # y[b].name}

\* str(i) of a list index; the name of the j-th inner key.
Segment(v, j) == IF v.kind = "list" THEN ToString(j - 1) ELSE InnerKeys[j]

\* The paths to the scalar leaves of one item, in document order.
ItemLeaves(item) ==
    IF item.value.kind = "scalar" THEN << <<item.name>> >>
    ELSE [j \in 1..item.value.n |-> <<item.name, Segment(item.value, j)>>]

\* new_key = f"{parent_key}{sep}{key}" if parent_key else key
new_key(parent_key, key) ==
    IF parent_key = "" THEN key ELSE parent_key \o "/" \o key

\* One assignment flattened_dict[key] = value.  The value is named by where
\* it comes from: a scalar leaf of the payload ("leaf", with its path), an
\* array stored whole ("list"), or the sno or identifier handed in.
Write(key, from, path) == [key |-> key, from |-> from, path |-> path]

\* 0__MCA Operations Probe42.py: objects and arrays are both descended; one
\* assignment per scalar leaf.
flatten_probe42(item) ==
    LET leaves == ItemLeaves(item) IN
    [j \in DOMAIN leaves |->
        Write(IF Len(leaves[j]) = 1 THEN new_key("", leaves[j][1])
              ELSE new_key(new_key("", leaves[j][1]), leaves[j][2]),
              "leaf", leaves[j])]

\* The head of every call of the other variant:
\* flattened_dict["sno"] = sno; flattened_dict[<identifier>] = <identifier>
given == <<Write("sno", "sno", <<>>), Write("id", "id", <<>>)>>

\* 17___PAN_to_GST.py (and 19, 20, 22): only isinstance(value, dict) is
\* descended, by a call that again starts with sno and the identifier and is
\* merged with update(); any other value is assigned under its key.
flatten_dicts_only(item) ==
    CASE item.value.kind = "scalar" ->
            <<Write(new_key("", item.name), "leaf", <<item.name>>)>>
      [] item.value.kind = "list" ->
            <<Write(new_key("", item.name), "list", <<item.name>>)>>
      [] OTHER ->
            given \o
            [j \in 1..item.value.n |->
                Write(new_key(new_key("", item.name), InnerKeys[j]), "leaf",
                      <<item.name, InnerKeys[j]>>)]

\* The assignments flatten_json makes for payload y, in order.
RECURSIVE writes(_)
writes(y) ==
    IF y = <<>> THEN <<>>
    ELSE (IF page = "Probe42" THEN flatten_probe42(Head(y))
          ELSE flatten_dicts_only(Head(y))) \o writes(Tail(y))

\* The dict after a sequence of assignments: every key holds what was
\* assigned to it last.
AsDict(w) ==
    [k \in {w[j].key : j \in DOMAIN w} |->
        LET last == CHOOSE j \in DOMAIN w :
                       /\ w[j].key = k
                       /\ \A j2 \in DOMAIN w : w[j2].key = k => j2 <= j
        IN [from |-> w[last].from, path |-> w[last].path]]

\* flatten_json(nested_json) on page Probe42,
\* flatten_json(nested_json, sno, pan) on page PAN to GST.
flatten_json ==
    /\ pc = "flatten"
    /\ pc' = "done"
    /\ flattened_dict' =
          AsDict((IF page = "Probe42" THEN <<>> ELSE given)
                     \o writes(nested_json))
    /\ UNCHANGED <<keys, out_columns, nested_json, shared_dir>>
    /\ UNCHANGED <<setting, idx, df, ret, raised, expanded_rows>>
    /\ NoCall /\ NoPoll

\* ------------------------------------------- Probe42 PDF: the ZIP download
\* Sessions that run the Probe42 PDF batch at the same time, each in the
\* script thread Streamlit gives it.
ZipSessions == 1..MaxSessions

\* The CINs a session can have fetched successfully.
Fetched == SUBSET {"A", "B"}

\* One step of a session's script changes that session's record only.
Step(z, rec) == probe' = [probe EXCEPT ![z] = rec]

\* process_company_master_data_pdf, one row whose fetch succeeded:
\* shutil.copy2('cache/'+cin+'.pdf', 'downloads/zipfolder').  After the
\* last row the processor returns.
CopyPdf(z) ==
    /\ probe[z].at = "rows"
    /\ probe[z].copied # probe[z].own
    /\ \E cin \in probe[z].own \ probe[z].copied :
          /\ zipfolder' = zipfolder \cup {cin}
          /\ Step(z, [probe[z] EXCEPT !.copied = @ \cup {cin}])
    /\ UNCHANGED <<downloadable, setting, layout, batch>>

\* The processor returned its table.
ReturnPdf(z) ==
    /\ probe[z].at = "rows"
    /\ probe[z].copied = probe[z].own
    /\ Step(z, [probe[z] EXCEPT !.at = "archive"])
    /\ UNCHANGED <<zipfolder, downloadable, setting, layout, batch>>

\* shutil.make_archive('downloads/downloadable', 'zip', 'downloads/zipfolder')
MakeArchive(z) ==
    /\ probe[z].at = "archive"
    /\ downloadable' = zipfolder
    /\ Step(z, [probe[z] EXCEPT !.at = "offer"])
    /\ UNCHANGED <<zipfolder, setting, layout, batch>>

\* with open("downloads/downloadable.zip", "rb") as fp:
\*     st.download_button(label="Download ZIP", data=fp, ...)
OfferZip(z) ==
    /\ probe[z].at = "offer"
    /\ Step(z, [probe[z] EXCEPT !.at = "clean", !.offered = downloadable])
    /\ UNCHANGED <<zipfolder, downloadable, setting, layout, batch>>

\* for filename in os.listdir(folder): os.unlink(file_path)
CleanUp(z) ==
    /\ probe[z].at = "clean"
    /\ zipfolder' = {}
    /\ Step(z, [probe[z] EXCEPT !.at = "done"])
    /\ UNCHANGED <<downloadable, setting, layout, batch>>

\* ---------------------------------------------------------------- session
\* What the processor handed back: the table, or None.
Output == [ret |-> ret, df |-> IF ret = "df" THEN df ELSE <<>>]

\* The user presses the page's run button again with the same file still
\* uploaded: the script runs the processor once more in the same session.
\* The st.cache_data store and the files under cache/ are kept; everything
\* local to the processor starts afresh.
Rerun ==
    /\ pc = "done" /\ run < MaxRuns
    /\ run' = run + 1
    /\ prev' = Output
    /\ idx' = 1
    /\ pc' = "rows"
    /\ df' = FirstFrame
    /\ ret' = "running"
    /\ raised' = ""
    /\ expanded_rows' = <<>>
    /\ netCalls' = [i \in 1..Len(input) |-> 0]
    /\ async_id' = ""
    /\ attempt' = 0
    /\ polls' = [i \in 1..Len(input) |-> 0]
    /\ answer' = [i \in 1..Len(input) |-> "none"]
    /\ replayed' = [i \in 1..Len(input) |-> 0]
    /\ UNCHANGED <<page, auth_token, input, steady, cache, transport,
                   served, job, decode_caught, file_type, columns,
                   session, owner, apart, installed, http_cache, gate>>

\* Another browser session opens the page, enters the same token and runs
\* the same file (the first session may have ended or still be open).
\* st.session_state is new; the
\* st.cache_data store belongs to the server process and the files under
\* cache/ to its working directory, so both are what the earlier sessions
\* left.
NewSession ==
    /\ pc = "done" /\ session < MaxSessions
    /\ session' = session + 1
    /\ run' = 1
    /\ prev' = [ret |-> "none", df |-> <<>>]
    /\ idx' = 1
    /\ pc' = "rows"
    /\ df' = FirstFrame
    /\ ret' = "running"
    /\ raised' = ""
    /\ expanded_rows' = <<>>
    /\ netCalls' = [i \in 1..Len(input) |-> 0]
    /\ async_id' = ""
    /\ attempt' = 0
    /\ polls' = [i \in 1..Len(input) |-> 0]
    /\ answer' = [i \in 1..Len(input) |-> "none"]
    /\ replayed' = [i \in 1..Len(input) |-> 0]
    /\ UNCHANGED <<page, auth_token, input, steady, cache, transport,
                   served, job, decode_caught, file_type, columns, owner,
                   apart, installed, http_cache, gate>>

\* ------------------------------------------------------ the scripts' gates
\* The page scripts that end in the gate around run() (runprobe() on the
\* Probe42 page).
AuthPages ==
    {"PAN", "PANDetailed", "Email", "AadharToPAN", "PANtoGST", "Phone",
     "Probe42", "Court", "DL"}

\* What stauth.Authenticate(...) followed by authenticator.login('main')
\* leaves in st.session_state['authentication_status'], s being what was
\* there: a session already logged in stays so; otherwise the credentials
\* (or the cookie) are accepted, or rejected, or the form is still waiting,
\* or the call leaves the key as it found it (login raised, which the
\* script catches, or the installed library does not create the key).
LoginOutcomes == {"accepted", "rejected", "pending", "unset"}

login(s, outcome) ==
    IF s = "True" THEN "True"
    ELSE CASE outcome = "accepted" -> "True"
           [] outcome = "rejected" -> "False"
           [] outcome = "pending" -> "None"
           [] OTHER -> s

\* What the gates leave alone.
behind ==
    <<auth_token, input, run, prev, steady, decode_caught, file_type, columns,
      session, installed, batch, apart>>

\* One run of the Home script: the login, then the key is set to True where
\* it is absent, and main() is shown to a truthy status; main() holds the
\* input of the Probe42 key.
Home ==
    \E outcome \in LoginOutcomes :
        LET after == login(authentication_status, outcome)
            status == IF after = "absent" THEN "True" ELSE after
        IN  /\ page' = "Home"
            /\ authentication_status' = status
            /\ accepted' =
                  (accepted \/ (authentication_status # "True"
                                  /\ outcome = "accepted"))
            /\ probe_api_key' \in
                  (IF status = "True" THEN {probe_api_key, "key"}
                   ELSE {probe_api_key})
            /\ UNCHANGED <<ran, behind>>

\* One run of the script of page p: run() is called when the key is present
\* and truthy (on the Probe42 page: and the Probe42 key has been entered).
VisitPage(p) ==
    /\ page' = p
    /\ ran' =
          (IF authentication_status = "True"
              /\ (p = "Probe42" => probe_api_key # "")
           THEN ran \cup {p} ELSE ran)
    /\ UNCHANGED <<authentication_status, accepted, probe_api_key, behind>>

\* ------------------------------------------------------------- properties
Rows == 1..Len(input)

Finished(i) == idx > i \/ (pc = "done" /\ ret = "df")

\* The records of the returned table that belong to input row i.
OutRows(i) == {j \in DOMAIN df : df[j].sno = i}

\* A required identifier of row i is blank or missing.
RequiredBlank(i) ==
    \/ BlankCell(input[i].id)
    \/ page = "DL" /\ BlankCell(input[i].aux)

\* The messages that name a missing field.
MissingMessages ==
    {"PAN is missing.", "Email is missing.", "aadhar is missing.",
     "mob is missing.", "CIN is missing.", "Missing CIN.", "Tag is missing.",
     "DL Number or DOB is missing."}

Terminal == {"COMPLETED", "ERRORED"}

\* Row i was polled and its last answer was not a terminal status.
NeverTerminal(i) == polls[i] > 0 /\ PollStatus(answer[i]) \notin Terminal

\* Row i's polling ended by exhausting the retry budget.
TimedOut(i) == idx > i /\ NeverTerminal(i)

\* Row i's submission was made and gave no job identifier.
NoJobId(i) ==
    /\ page \in {"Court", "DL"}
    /\ idx > i
    /\ ~RequiredBlank(i)
    /\ cache[input[i].id] \in {"{}", "noitems", "noid"}

\* C1: for every input row whose required identifier is blank or missing
\* (absent cell, empty or whitespace-only string), no request is issued for
\* that row.
C1_NoRequestForBlankRow ==
    \A i \in Rows : RequiredBlank(i) => netCalls[i] = 0

\* C2: every input row with a blank required identifier is in the returned
\* table with valid = False and a message that names the missing field.
C2_BlankRowReported ==
    ret = "df" =>
        \A i \in Rows : RequiredBlank(i) =>
            \E j \in OutRows(i) : /\ df[j].valid = "False"
                                  /\ df[j].message \in MissingMessages

\* C3: every input row has exactly one primary row in the returned table,
\* whatever its outcome.
C3_OneOutputRowPerInputRow ==
    ret = "df" => \A i \in Rows : Cardinality(OutRows(i)) = 1

\* C4: no failure of a single row makes the processor return no table.
C4_BatchNeverAborted ==
    Len(input) > 0 => ret # "None"

\* C5: an identifier that occurs twice in one batch causes at most one
\* request of the verification client, and both of its output rows carry the
\* same verification result.
C5_AtMostOneRequestPerKey ==
    \A i, j \in Rows :
        (i < j /\ input[i] = input[j] /\ ~RequiredBlank(i)) =>
            /\ transport[str(input[i].id)] <= 1
            /\ ret = "df" =>
                 \A a \in OutRows(i), b \in OutRows(j) :
                    /\ df[a].valid = df[b].valid
                    /\ df[a].message = df[b].message
                    /\ df[a].number = df[b].number
                    /\ df[a].payload = df[b].payload

\* C6: in both pollers, after budget-1 non-terminal answers (14 for court
\* records, 19 for driving licences) the row is still being polled, and when
\* poll number budget (15, 20) answers COMPLETED the row is finished with
\* the completed job's output.
C6_CompletedOnLastPoll ==
    \A i \in Rows :
        LET budget == IF page = "Court" THEN 15 ELSE 20 IN
        /\ (polls[i] = budget - 1 /\ NeverTerminal(i)) =>
              (pc = "poll" /\ idx = i)
        /\ (polls[i] = budget /\ PollStatus(answer[i]) = "COMPLETED") =>
              /\ idx > i
              /\ df[i].payload = PollOutput(answer[i])
              /\ df[i].valid = PayloadValid(PollOutput(answer[i]))

C6_Witness ==
    /\ page = "DL"
    /\ \E i \in Rows : /\ polls[i] = 20
                       /\ answer[i] = "COMPLETED:out1"
                       /\ df[i].payload = "out1"

\* C7: in both pollers, a row whose job never answers COMPLETED or ERRORED
\* gets exactly the configured number of status queries (15 for court
\* records, 20 for driving licences), is then recorded as failed, and is not
\* queried again.
C7_ExactlyBudgetPolls ==
    \A i \in Rows :
        LET budget == IF page = "Court" THEN 15 ELSE 20 IN
        /\ polls[i] <= budget
        /\ polls[i] = budget => idx > i
        /\ TimedOut(i) => (polls[i] = budget /\ df[i].valid = "False")

C7_Witness ==
    /\ page = "Court"
    /\ \E i \in Rows : TimedOut(i) /\ polls[i] = 15

\* C8: in both pollers, an ERRORED answer stops the polling of the row at
\* once and the row is recorded as failed with the error message of the
\* remote response.
C8_ErroredRowCarriesError ==
    \A i \in Rows :
        (polls[i] > 0 /\ PollStatus(answer[i]) = "ERRORED") =>
            /\ idx > i
            /\ df[i].valid = "False"
            /\ \/ df[i].message \in {PollError(answer[i]),
                                     "Error: " \o PollError(answer[i])}
               \/ df[i].number \in {PollError(answer[i]),
                                    "Error: " \o PollError(answer[i])}

C11_Original ==
    [][(pc = "poll" /\ job[async_id] # "none") => polls' = polls]_vars

\* C11 (amended): within one run, a row whose job answered COMPLETED or
\* ERRORED, or whose retry budget ran out, is issued no further status
\* query.  (The job itself is not remembered: a later row or a later run
\* that gets the same job from the cached submission polls it again.)
C11_RowNotPolledAfterEnd ==
    [][\A i \in Rows :
          (/\ run' = run
           /\ polls[i] > 0
           /\ \/ answer[i] \in {"COMPLETED:out1", "COMPLETED:{}", "ERRORED"}
              \/ idx > i)
          => polls'[i] = polls[i]]_vars

\* A second run has polled again a job that the first run saw COMPLETED.
C11_Witness ==
    /\ run = 2 /\ pc = "done"
    /\ page = "Court"
    /\ \E i \in Rows : /\ ~RequiredBlank(i)
                       /\ PollStatus(job[input[i].id]) = "COMPLETED"
                       /\ answer[i] = job[input[i].id]
                       /\ polls[i] = 1

\* The request of row i went out and failed (the client returned {}).
TransportFailed(i) ==
    /\ page \notin {"Court", "DL", "Probe42", "Probe42PDF"}
    /\ auth_token # ""
    /\ ~RequiredBlank(i)
    /\ netCalls[i] = 1
    /\ cache[str(input[i].id)] = "{}"

\* C12: a row with a non-blank identifier whose request failed is in the
\* table with valid = False and message "No data returned from API.", and
\* the loop has moved on to the next row.
C12_TransportFailureReported ==
    \A i \in Rows :
        TransportFailed(i) =>
            /\ idx > i
            /\ \E j \in OutRows(i) :
                  /\ df[j].valid = "False"
                  /\ df[j].message = "No data returned from API."

\* The side rows produced for input row i, in the order they were produced.
SideRows(i) == SelectSeq(expanded_rows, LAMBDA e : e.sno = i)

\* Row i of an expanding page was answered with a JSON object and its
\* iteration of the loop is over.
Received(i) ==
    /\ page \in ExpandPages
    /\ idx > i
    /\ ~RequiredBlank(i)
    /\ Truthy(cache[input[i].id])

\* Length of the list field of the body row i received (0 when absent).
ListLength(i) ==
    LET b == Body(cache[input[i].id]) IN IF b.items < 0 THEN 0 ELSE b.items

\* The side rows of row i are exactly n, numbered 1..n in order, and the row
\* is in the returned table.
ExpandedTo(i, n) ==
    /\ Len(SideRows(i)) = n
    /\ \A k \in 1..Len(SideRows(i)) : SideRows(i)[k].subsno = k
    /\ ret = "df" => OutRows(i) # {}

Iterated(i) ==
    LET b == Body(cache[input[i].id]) IN
    CASE page = "EPFO" -> IF b.valid = "True" THEN ListLength(i) ELSE 0
      [] page = "DirectorMaster" -> ListLength(i) + b.past
      [] OTHER -> ListLength(i)

C14_PrimaryRowsPreserved ==
    (page \in ExpandPages /\ ret = "df") =>
        \A i \in Rows :
            IF Len(SideRows(i)) = 0
            THEN /\ Cardinality(OutRows(i)) = 1
                 /\ \A j \in OutRows(i) : df[j].subsno = 0
            ELSE /\ Cardinality(OutRows(i)) = Len(SideRows(i))
                 /\ \A j \in OutRows(i) : df[j].subsno > 0

\* C15: every expanded row is in the returned table, joined to the primary
\* row of its parent: its join key equals the parent's at the join.
C15_ExpandedRowsJoined ==
    (page \in ExpandPages /\ ret = "df") =>
        \A k \in DOMAIN expanded_rows :
            \E j \in DOMAIN df :
                /\ df[j].sno = expanded_rows[k].sno
                /\ df[j].key = expanded_rows[k].key
                /\ df[j].subsno = expanded_rows[k].subsno

\* The verification of row i did not succeed: the client returned {}, the
\* submission gave no job, the job timed out, errored or completed with an
\* empty output.
Failed(i) ==
    /\ page \notin {"Probe42", "Probe42PDF"}
    /\ idx > i
    /\ ~RequiredBlank(i)
    /\ \/ cache[input[i].id] = "{}"
       \/ NoJobId(i)
       \/ TimedOut(i)
       \/ polls[i] > 0 /\ answer[i] \in {"ERRORED", "COMPLETED:{}"}

\* Output row j is marked as failed and says why.
Marked(j) == df[j].valid = "False" /\ df[j].message \notin {"None", ""}

\* C16: in every returned table, every row whose verification did not
\* succeed has valid = False and a non-empty message.
C16_FailedRowsMarked ==
    ret = "df" =>
        /\ \A i \in Rows : Failed(i) => \A j \in OutRows(i) : Marked(j)
        /\ page \in {"Probe42", "Probe42PDF"} =>
              \A j \in DOMAIN df : df[j].payload = "{}" => Marked(j)

\* C17: a second run of a page's processor on the same input in the same
\* session, with the services answering as before, returns what the first
\* run returned.
C17_RerunSameOutput ==
    (run > 1 /\ pc = "done") => Output = prev

C17_Witness ==
    /\ run = 2 /\ pc = "done" /\ ret = "df"
    /\ page = "Court"
    /\ \E i \in Rows : /\ polls[i] = 1
                       /\ answer[i] = "COMPLETED:out1"
                       /\ df[i].payload = "out1"
                       /\ prev.df[i].payload = "out1"

\* C18: the rows of the returned table are in the order of the input rows
\* they belong to, also after the expanded rows were joined in.
C18_RowOrderPreserved ==
    ret = "df" =>
        \A j1, j2 \in DOMAIN df : j1 < j2 => df[j1].sno <= df[j2].sno

\* A failed first row is followed by a second row with joined side rows.
C18_Witness ==
    /\ page \in ExpandPages /\ ret = "df"
    /\ Len(input) >= 2 /\ Len(df) > Len(input)
    /\ df[1].sno = 1 /\ df[1].valid = "False"
    /\ df[Len(df)].subsno > 1

BadUpload ==
    \/ file_type \notin {"csv", "xls", "xlsx"}
    \/ \E c \in (IF page = "Court" THEN {"sno", "id", "aux"}
                                    ELSE {"sno", "id"}) :
          \A k \in DOMAIN columns : columns[k] # c

\* C21: when the declared format is not csv/xls/xlsx, or a required column
\* is absent from the file, the processor returns None without processing a
\* row and without issuing a request.
C21_BadUploadRejected ==
    (BadUpload /\ pc # "open") =>
        /\ pc = "done" /\ ret = "None"
        /\ idx = 1 /\ df = <<>> /\ expanded_rows = <<>>
        /\ \A i \in Rows : netCalls[i] = 0 /\ polls[i] = 0
        /\ \A k \in Keys : transport[k] = 0 /\ cache[k] = "Miss"

\* A csv file without the identifier column, with rows and credentials,
\* was turned down.
C21_Witness ==
    /\ pc = "done" /\ ret = "None"
    /\ file_type = "csv" /\ auth_token = "tok"
    /\ columns = <<"sno", "aux">>
    /\ Len(input) > 0
    /\ \A i \in Rows : input[i].id = "A"

\* The lookup of row i was made in this session and answered with a value
\* that another session had stored.
ForeignHit(i) ==
    /\ page \notin {"Probe42"}
    /\ idx > i
    /\ ~RequiredBlank(i)
    /\ cache[str(input[i].id)] # "Miss"
    /\ owner[str(input[i].id)] # session

\* C22: the result cache is scoped to one session: no lookup is answered with
\* a result that another session stored, and no stored result outlives the
\* session that stored it.
C22_CacheSessionScoped ==
    /\ \A i \in Rows : ~ForeignHit(i)
    /\ \A k \in Keys : cache[k] # "Miss" => owner[k] = session

\* C23: in every returned table the columns sno, identifier, valid and
\* message come first, in that order, and every derived column follows.
C23_PinnedColumnsFirst ==
    (pc = "done" /\ ret = "df" /\ out_columns # <<>>) =>
        /\ Len(out_columns) >= 4
        /\ SubSeq(out_columns, 1, 4) = <<"sno", "id", "valid", "message">>

\* The paths to the scalar leaves of the payload.
Leaves ==
    UNION {{ItemLeaves(nested_json[k])[j] :
               j \in DOMAIN ItemLeaves(nested_json[k])} :
           k \in DOMAIN nested_json}

\* The '/'-joined path (paths here have one or two segments).
Joined_path(path) ==
    IF Len(path) = 1 THEN path[1] ELSE path[1] \o "/" \o path[2]

\* C24: flatten_json maps every scalar leaf of a payload of objects and
\* arrays to one entry whose key is the '/'-joined path of keys and indices
\* to the leaf, no two leaves under one key, arrays descended element by
\* element.
C24_EveryLeafFlattened ==
    (pc = "done" /\ nested_json # <<>>) =>
        /\ \A l \in Leaves :
              /\ Joined_path(l) \in DOMAIN flattened_dict
              /\ flattened_dict[Joined_path(l)] = [from |-> "leaf", path |-> l]
        /\ \A l1, l2 \in Leaves :
              l1 # l2 => Joined_path(l1) # Joined_path(l2)

\* C25: with the process-wide HTTP cache installed by the Home page, every
\* status query of a poller reaches the remote status endpoint: none is
\* answered from a stored copy of an earlier poll's response.
C25_PollsReachRemote ==
    installed => \A i \in Rows : replayed[i] = 0

\* Pages whose client is wrapped in st.cache_data.
Memoised == (Pages \cup ExpandPages) \ {"Probe42", "Probe42PDF"}

\* C26: the cache memoises failures as well as successes: once the cached
\* client has returned for a key, an empty result included, no later lookup
\* of the key in the session changes the stored result or invokes the
\* transport.
C26_FailuresMemoised ==
    [][\A k \in Keys :
          (page \in Memoised /\ cache[k] # "Miss") =>
              (cache'[k] = cache[k] /\ transport'[k] = transport[k])]_vars

\* A second run has looked up a key whose request failed in the first run:
\* one request in all, none for the row in this run, the row reported empty.
C26_Witness ==
    /\ page = "PAN" /\ run = 2 /\ pc = "done" /\ ret = "df"
    /\ auth_token = "tok"
    /\ \E i \in Rows : /\ input[i].id = "A"
                       /\ cache["A"] = "{}"
                       /\ transport["A"] = 1
                       /\ netCalls[i] = 0
                       /\ df[i].message = "No data returned from API."
                       /\ prev.df[i].message = "No data returned from API."

\* C27: processing a batch never changes an input row's sno or identifier:
\* in the returned table every row carries the sno and the identifier that
\* were read from the file.
C27_InputColumnsUnchanged ==
    ret = "df" =>
        \A j \in DOMAIN df :
            /\ df[j].sno \in Rows
            /\ df[j].id = input[df[j].sno].id

\* C28: when sessions run the Probe42 PDF batch concurrently, the ZIP offered
\* to each session holds exactly the PDFs of that session's own successfully
\* fetched rows, whatever the interleaving of their copy, archive and
\* clean-up steps.
C28_ZipHoldsOwnPdfs ==
    \A z \in DOMAIN probe :
        probe[z].at \in {"clean", "done"} => probe[z].offered = probe[z].own

\* Row i of the driving-licence page had a job identifier and its polling is
\* over.
DLPolled(i) == page = "DL" /\ idx > i /\ polls[i] > 0

\* C30: on the driving-licence page, a row with a job identifier ends with
\* the message "Verification did not complete." exactly when its polling
\* ended by an ERRORED status or by 20 polls without a terminal status; a
\* job that reached COMPLETED never yields that message, and one that
\* completed with an empty output yields "No data returned from API.".
C30_NotCompletedIffErroredOrExhausted ==
    \A i \in Rows :
        DLPolled(i) =>
            /\ df[i].message = "Verification did not complete." <=>
                  \/ PollStatus(answer[i]) = "ERRORED"
                  \/ (polls[i] = max_attempts /\ NeverTerminal(i))
            /\ PollStatus(answer[i]) = "COMPLETED" =>
                  df[i].message # "Verification did not complete."
            /\ (PollStatus(answer[i]) = "COMPLETED"
                  /\ ~Truthy(PollOutput(answer[i]))) =>
                  df[i].message = "No data returned from API."

\* One batch with a row whose job errored and a row whose job completed
\* with an empty output.
C30_Witness ==
    /\ page = "DL"
    /\ ret = "df"
    /\ \E i, j \in Rows :
          /\ PollStatus(answer[i]) = "ERRORED"
          /\ df[i].message = "Verification did not complete."
          /\ answer[j] = "COMPLETED:{}"
          /\ df[j].message = "No data returned from API."

Next ==
    \/ \E o \in AllOutcomes : ProcessRowPAN(o)
    \/ \E o \in AllOutcomes : ProcessRowPANDetailed(o)
    \/ \E o \in AllOutcomes : ProcessRowEmail(o)
    \/ \E o \in AllOutcomes : ProcessRowAadharToPAN(o)
    \/ \E o \in AllOutcomes : ProcessRowPANtoGST(o)
    \/ \E o \in AllOutcomes : ProcessRowPhone(o)
    \/ \E o \in AllOutcomes : ProcessRowProbe42(o)
    \/ \E o \in AllOutcomes : ProcessRowProbe42PDF(o)
    \/ ReturnProbe42
    \/ \E o \in SubmitOutcomes : SubmitCourt(o)
    \/ \E s \in PollOutcomes : PollCourt(s)
    \/ \E o \in SubmitOutcomes : SubmitDL(o)
    \/ \E s \in PollOutcomes : PollDL(s)
    \/ ReturnFrame

Spec == Init /\ [][Next]_vars

\* One run of one expanding page.
InitExpand == Start(ExpandPages) /\ steady = FALSE

NextExpand ==
    \/ \E o \in ExpandOutcomes : ProcessRowEPFO(o)
    \/ \E o \in ExpandOutcomes : ProcessRowCompanyMaster(o)
    \/ \E o \in ExpandOutcomes : ProcessRowDirectorMaster(o)
    \/ \E o \in ExpandOutcomes : ProcessRowDirectorSearch(o)
    \/ ReturnMerged

SpecExpand == InitExpand /\ [][NextExpand]_vars

\* A session of several runs of one page on the same file, against services
\* whose answers do not change.
InitSession == Start(Pages) /\ steady = TRUE

NextSession == Next \/ Rerun

SpecSession == InitSession /\ [][NextSession]_vars

\* One call of a processor on an uploaded file of any declared format and
\* header: PAN, court records, MCA director search.
UploadPages == {"PAN", "Court", "DirectorSearch"}

\* The check of the required columns does not look at their order: the
\* uploaded files differ in which columns they have.
UploadHeaders ==
    {h \in Headers : \A a, b \in DOMAIN h :
        (a < b) => <<h[a], h[b]>> \in {<<"sno", "id">>, <<"sno", "aux">>,
                                       <<"id", "aux">>}}

InitUpload ==
    /\ Fresh(UploadPages)
    /\ Entered
    /\ Unused
    /\ file_type \in FileTypes
    /\ columns \in UploadHeaders
    /\ pc = "open"
    /\ df = <<>>
    /\ steady = FALSE

NextUpload ==
    \/ OpenFile
    \/ \E o \in AllOutcomes : ProcessRowPAN(o)
    \/ \E o \in SubmitOutcomes : SubmitCourt(o)
    \/ \E s \in PollOutcomes : PollCourt(s)
    \/ \E o \in ExpandOutcomes : ProcessRowDirectorSearch(o)
    \/ ReturnFrame
    \/ ReturnMerged

SpecUpload == InitUpload /\ [][NextUpload]_vars

\* The layout of the returned table, for every accepted header and every
\* order of the payload's keys.
ColumnPages == {"PAN", "Probe42", "PANtoGST"}

InitColumns ==
    /\ Fresh(ColumnPages)
    /\ Entered
    /\ input = <<[id |-> "A", aux |-> "A"]>>
    /\ file_type = "csv"
    /\ columns \in {h \in Headers : {"sno", "id"} \subseteq Names(h)}
    /\ keys \in PayloadKeys \ {<<>>}
    /\ out_columns = <<>>
    /\ nested_json = <<>>
    /\ flattened_dict = <<>>
    /\ NoZip
    /\ pc = "columns"
    /\ df = <<>>
    /\ steady = FALSE

NextColumns == BuildColumns

SpecColumns == InitColumns /\ [][NextColumns]_vars

\* flatten_json applied to every payload of depth two, in both variants.
FlattenPages == {"Probe42", "PANtoGST"}

InitFlatten ==
    /\ Fresh(FlattenPages)
    /\ Entered
    /\ input = <<[id |-> "A", aux |-> "A"]>>
    /\ file_type = "csv"
    /\ columns = <<"sno", "id">>
    /\ keys = <<>>
    /\ out_columns = <<>>
    /\ nested_json \in Payloads
    /\ flattened_dict = <<>>
    /\ NoZip
    /\ pc = "flatten"
    /\ df = <<>>
    /\ steady = FALSE

NextFlatten == flatten_json

SpecFlatten == InitFlatten /\ [][NextFlatten]_vars

\* Sessions running the Probe42 PDF batch concurrently: each has pressed its
\* run button; every fetch has been made.
InitZip ==
    /\ Fresh({"Probe42PDF"})
    /\ input = <<>>
    /\ auth_token = "tok"
    /\ file_type = "csv"
    /\ columns = <<"sno", "id">>
    /\ keys = <<>>
    /\ out_columns = <<>>
    /\ nested_json = <<>>
    /\ flattened_dict = <<>>
    /\ Entered
    /\ zipfolder = {}
    /\ downloadable = {}
    /\ probe \in [ZipSessions -> [at : {"rows"}, own : Fetched,
                                   copied : {{}}, offered : {{}}]]
    /\ pc = "done"
    /\ df = <<>>
    /\ steady = FALSE

NextZip ==
    \E z \in ZipSessions :
        \/ CopyPdf(z)
        \/ ReturnPdf(z)
        \/ MakeArchive(z)
        \/ OfferZip(z)
        \/ CleanUp(z)

SpecZip == InitZip /\ [][NextZip]_vars

\* A browser session from its first request: nothing in st.session_state,
\* no page run yet; the user opens Home and the pages in any order.
InitAuth ==
    /\ Fresh({"Home"})
    /\ input = <<>>
    /\ auth_token = ""
    /\ steady = FALSE
    /\ file_type = "csv"
    /\ columns = <<>>
    /\ pc = "done"
    /\ df = <<>>
    /\ keys = <<>>
    /\ out_columns = <<>>
    /\ nested_json = <<>>
    /\ flattened_dict = <<>>
    /\ NoZip
    /\ authentication_status = "absent"
    /\ accepted = FALSE
    /\ ran = {}
    /\ probe_api_key = ""

NextAuth ==
    \/ Home
    \/ \E p \in AuthPages : VisitPage(p)

SpecAuth == InitAuth /\ [][NextAuth]_vars

\* Several browser sessions served one after the other by one server
\* process.
InitShared == Start(Pages) /\ steady = FALSE

NextShared == Next \/ NewSession

SpecShared == InitShared /\ [][NextShared]_vars
====
